---------------------------- MODULE Spec2Model ----------------------------
(***************************************************************************)
(* A model of the multi-language subtitle pipeline of                      *)
(* keyword_speech_indexing: app/transcribe.py (format_timestamp,           *)
(* write_vtt, translate_segments, transcribe_core, transcribe_to_vtt_many) *)
(* and the language validation of app/main.py (upload_video).              *)
(*                                                                         *)
(* Text is a sequence of one-character strings.  Time is an integer count  *)
(* of ticks, TicksPerMs to the millisecond, so that a float seconds value  *)
(* is taken at sub-millisecond resolution.                                 *)
(***************************************************************************)
EXTENDS Integers, Sequences, FiniteSets, TLC

VARIABLES
    pc,             \* position of the run of transcribe_to_vtt_many
    video_id,       \* argument video_id of the run
    langs,          \* argument langs of the run
    idx,            \* position of "for code in langs"
    base_segments,  \* local base_segments
    segs,           \* local segs of the last loop iteration
    out,            \* local dict out, as its keys in insertion order
    written,        \* the codes whose track this run has written, in order
    asrCalls,       \* calls of transcribe_core made by this run
    runs,           \* calls of transcribe_to_vtt_many made so far
    asrAvail,       \* whisper is not None
    mtAvail,        \* GoogleTranslator is not None
    mtFails,        \* languages for which every translation call raises
    files,          \* vtt_dir: track files, <<video_id, code>> -> content
    manifests,      \* vtt_dir: manifest files, video_id -> langs
    raw,            \* upload_video: the langs query parameter
    requested,      \* upload_video: local requested
    tracks,         \* upload_video: local tracks, as their lang codes
    upc,            \* position of upload_video
    tSegs,          \* translate_segments: argument segments
    tLang,          \* translate_segments: argument target_lang
    tEnv,           \* translate_segments: what the capability answers
    tRes,           \* translate_segments: its outcome
    vttSegs,        \* write_vtt: argument segments
    vttFile,        \* write_vtt: the file at out_path
    seconds,        \* format_timestamp: argument seconds, in ticks
    stamp           \* format_timestamp: its result

vars == <<pc, video_id, langs, idx, base_segments, segs, out, written, asrCalls, runs,
          asrAvail, mtAvail, mtFails, files, manifests, raw, requested, tracks, upc,
          tSegs, tLang, tEnv, tRes, vttSegs, vttFile, seconds, stamp>>

pipeVars == <<pc, video_id, langs, idx, base_segments, segs, out, written, asrCalls, runs,
              asrAvail, mtAvail, mtFails>>
diskVars == <<files, manifests>>
upVars == <<raw, requested, tracks, upc>>
trVars == <<tSegs, tLang, tEnv, tRes>>
vttVars == <<vttSegs, vttFile>>
tsVars == <<seconds, stamp>>

-----------------------------------------------------------------------------
(* Bounds of the model.                                                    *)

MaxTextLen == 4
MaxVttSegs == 2
MaxSegs == 2
MaxLangs == 2
MaxRuns == 2
MaxRawLen == 5
\* Resolution of time: ticks per millisecond.
TicksPerMs == 4

-----------------------------------------------------------------------------
(* Values.                                                                 *)

\* No file at a path of vtt_dir (a written track is never empty).
NoFile == <<>>
NoManifest == [exists |-> FALSE, langs |-> <<>>]

\* Ticks per second (TicksPerMs is the resolution at which seconds is taken).
TicksPerSec == 1000 * TicksPerMs

NL == "\n"
SP == " "
\* The one character U+2192 that write_vtt puts in place of "-->".
RightArrow == "->"
Whitespace == {SP, NL}

Range(s) == {s[i] : i \in 1..Len(s)}

RECURSIVE SeqsUpTo(_, _)
\* All sequences over S of length at most n.
SeqsUpTo(S, n) ==
    IF n = 0 THEN {<<>>}
    ELSE LET shorter == SeqsUpTo(S, n - 1)
         IN  shorter \cup {Append(s, x) : s \in {t \in shorter : Len(t) = n - 1}, x \in S}

-----------------------------------------------------------------------------
(* str.strip, str.replace, str.split, str.join                             *)

RECURSIVE LStrip(_)
LStrip(t) ==
    IF t # <<>> /\ Head(t) \in Whitespace THEN LStrip(Tail(t)) ELSE t

RECURSIVE RStrip(_)
RStrip(t) ==
    IF t # <<>> /\ t[Len(t)] \in Whitespace
    THEN RStrip(SubSeq(t, 1, Len(t) - 1)) ELSE t

Strip(t) == RStrip(LStrip(t))

StartsWith(t, p) == Len(t) >= Len(p) /\ SubSeq(t, 1, Len(p)) = p

RECURSIVE Replace(_, _, _)
\* t.replace(old, new): left to right, non-overlapping; old is not empty.
Replace(t, old, new) ==
    IF t = <<>> THEN <<>>
    ELSE IF StartsWith(t, old)
         THEN new \o Replace(SubSeq(t, Len(old) + 1, Len(t)), old, new)
         ELSE <<Head(t)>> \o Replace(Tail(t), old, new)

RECURSIVE SplitAt(_, _, _)
\* t.split(sep), given the part read so far; sep is not empty.
SplitAt(t, sep, cur) ==
    IF t = <<>> THEN <<cur>>
    ELSE IF StartsWith(t, sep)
         THEN <<cur>> \o SplitAt(SubSeq(t, Len(sep) + 1, Len(t)), sep, <<>>)
         ELSE SplitAt(Tail(t), sep, Append(cur, Head(t)))

Split(t, sep) == SplitAt(t, sep, <<>>)

RECURSIVE Join(_, _)
\* sep.join(parts)
Join(sep, parts) ==
    IF parts = <<>> THEN <<>>
    ELSE IF Len(parts) = 1 THEN parts[1]
         ELSE parts[1] \o sep \o Join(sep, Tail(parts))

-----------------------------------------------------------------------------
(* format_timestamp                                                        *)

Digits == <<"0", "1", "2", "3", "4", "5", "6", "7", "8", "9">>

RECURSIVE Decimal(_)
\* str(n) for n >= 0
Decimal(n) ==
    IF n < 10 THEN <<Digits[n + 1]>>
    ELSE Append(Decimal(n \div 10), Digits[(n % 10) + 1])

RECURSIVE ZeroPad(_, _)
\* the format {n:0wd}: at least w digits, zero-padded on the left
ZeroPad(t, w) == IF Len(t) >= w THEN t ELSE ZeroPad(<<"0">> \o t, w)

\* int(round(x)) for x = num/den >= 0: Python rounds a tie to the even integer.
RoundHalfEven(num, den) ==
    LET q == num \div den
        r == num % den
    IN  IF 2 * r < den THEN q
        ELSE IF 2 * r > den THEN q + 1
        ELSE IF q % 2 = 0 THEN q ELSE q + 1

\* ms = int(round((seconds - int(seconds)) * 1000)): 0..1000, nothing carries
\* into the seconds field.
FieldMs(secs) == RoundHalfEven(secs % TicksPerSec, TicksPerMs)
FieldS(secs) == (secs \div TicksPerSec) % 60
FieldM(secs) == ((secs \div TicksPerSec) \div 60) % 60
FieldH(secs) == (secs \div TicksPerSec) \div 3600

format_timestamp(secs) ==
    ZeroPad(Decimal(FieldH(secs)), 2) \o <<":">> \o
    ZeroPad(Decimal(FieldM(secs)), 2) \o <<":">> \o
    ZeroPad(Decimal(FieldS(secs)), 2) \o <<".">> \o
    ZeroPad(Decimal(FieldMs(secs)), 3)

-----------------------------------------------------------------------------
(* write_vtt                                                               *)

Header == <<"W", "E", "B", "V", "T", "T">>
ArrowText == <<"-", "-", ">">>
RangeSep == <<SP>> \o ArrowText \o <<SP>>

Segment(s, e, t) == [start |-> s, end |-> e, text |-> t]

\* text = seg["text"].strip().replace("-->", RightArrow)
CueText(t) == Replace(Strip(t), ArrowText, <<RightArrow>>)

\* One "{start} --> {end}\n{text}\n\n" block.
CueBlock(seg) ==
    format_timestamp(seg.start) \o RangeSep \o format_timestamp(seg.end) \o <<NL>>
    \o CueText(seg.text) \o <<NL, NL>>

RECURSIVE CueBlocks(_)
CueBlocks(ss) == IF ss = <<>> THEN <<>> ELSE CueBlock(Head(ss)) \o CueBlocks(Tail(ss))

\* The content of the file write_vtt leaves at out_path.
write_vtt(ss) == Header \o <<NL, NL>> \o CueBlocks(ss)

-----------------------------------------------------------------------------
(* Re-reading a caption file: the header, then blocks of a timestamp-range *)
(* line and text, separated by blank lines (spec, section 8).              *)

IsDigit(c) == c \in Range(Digits)
DigitVal(c) == CHOOSE d \in 0..9 : Digits[d + 1] = c

\* Whether t has the shape HH:MM:SS.mmm, minutes and seconds in 00-59.
IsTimestamp(t) ==
    /\ Len(t) = 12
    /\ t[3] = ":" /\ t[6] = ":" /\ t[9] = "."
    /\ \A i \in {1, 2, 4, 5, 7, 8, 10, 11, 12} : IsDigit(t[i])
    /\ DigitVal(t[4]) <= 5
    /\ DigitVal(t[7]) <= 5

\* The time a well-formed timestamp states, in milliseconds.
TimestampMs(t) ==
    LET h == 10 * DigitVal(t[1]) + DigitVal(t[2])
        m == 10 * DigitVal(t[4]) + DigitVal(t[5])
        s == 10 * DigitVal(t[7]) + DigitVal(t[8])
        ms == 100 * DigitVal(t[10]) + 10 * DigitVal(t[11]) + DigitVal(t[12])
    IN  ((h * 60 + m) * 60 + s) * 1000 + ms

\* -1 for what is no timestamp.
ParseTimestamp(t) == IF IsTimestamp(t) THEN TimestampMs(t) ELSE -1

RECURSIVE BlocksOf(_, _)
\* The maximal runs of non-empty lines, given the run read so far.
BlocksOf(lines, cur) ==
    IF lines = <<>> THEN (IF cur = <<>> THEN <<>> ELSE <<cur>>)
    ELSE IF Head(lines) = <<>>
         THEN (IF cur = <<>> THEN <<>> ELSE <<cur>>) \o BlocksOf(Tail(lines), <<>>)
         ELSE BlocksOf(Tail(lines), Append(cur, Head(lines)))

ParseCue(block) ==
    LET ends == Split(block[1], RangeSep)
    IN  [start |-> IF Len(ends) = 2 THEN ParseTimestamp(ends[1]) ELSE -1,
         end   |-> IF Len(ends) = 2 THEN ParseTimestamp(ends[2]) ELSE -1,
         text  |-> Join(<<NL>>, Tail(block))]

\* The entries of a caption file: one per block after the header.
ParseVtt(file) ==
    LET blocks == BlocksOf(Split(file, <<NL>>), <<>>)
    IN  IF blocks = <<>> \/ blocks[1] # <<Header>> THEN <<>>
        ELSE [i \in 1..(Len(blocks) - 1) |-> ParseCue(blocks[i + 1])]

\* Whether ms milliseconds is the time secs (ticks) to the nearest millisecond.
AccurateToMs(ms, secs) ==
    /\ ms >= 0
    /\ 2 * (ms * TicksPerMs - secs) <= TicksPerMs
    /\ 2 * (secs - ms * TicksPerMs) <= TicksPerMs

-----------------------------------------------------------------------------
(* The translation capability: each call raises or returns a text.         *)

Raise == [raises |-> TRUE, text |-> <<>>]
Reply(t) == [raises |-> FALSE, text |-> t]

Bars == <<"|", "|", "|">>
\* delim = " ||| "
Delim == <<SP>> \o Bars \o <<SP>>

\* A translation of t into language code: t behind a tag naming the language.
Translated(t, code) == <<code>> \o t

\* What translator.translate(joined) may answer: an error, every text
\* translated with the delimiters kept, the delimiters lost, a delimiter more.
BatchReplies(ss, code) ==
    LET tr == [i \in 1..Len(ss) |-> Translated(ss[i].text, code)]
    IN  {Raise, Reply(Join(Delim, tr)), Reply(Join(<<SP>>, tr)),
         Reply(Join(Delim, tr) \o Bars)}

\* What translator.translate(s["text"]) may answer.
LineReplies(seg, code) == {Raise, Reply(Translated(seg.text, code))}

AllRaise(ss) == [batch |-> Raise, lines |-> [i \in 1..Len(ss) |-> Raise]]

\* The capability translating every text and keeping the delimiters.
Faithful(ss, code) ==
    LET tr == [i \in 1..Len(ss) |-> Translated(ss[i].text, code)]
    IN  [batch |-> Reply(Join(Delim, tr)), lines |-> [i \in 1..Len(ss) |-> Reply(tr[i])]]

\* The answers of the capability during one call of translate_segments: all
\* errors when failing, anything otherwise.
TrEnvs(ss, code, failing) ==
    IF failing THEN {AllRaise(ss)}
    ELSE {[batch |-> b, lines |-> l] :
            b \in BatchReplies(ss, code),
            l \in {f \in [1..Len(ss) -> UNION {LineReplies(ss[i], code) : i \in 1..Len(ss)}] :
                     \A i \in 1..Len(ss) : f[i] \in LineReplies(ss[i], code)}}

-----------------------------------------------------------------------------
(* translate_segments                                                      *)

\* parts = [p.strip() for p in translated.split("|||")]
BatchParts(translated) ==
    LET ps == Split(translated, Bars) IN [i \in 1..Len(ps) |-> Strip(ps[i])]

\* Whether the try block raises: the batch call does, or the part count differs.
BatchFailed(ss, env) ==
    env.batch.raises \/ Len(BatchParts(env.batch.text)) # Len(ss)

\* A bug the fallback could have: a segment whose translation raises is dropped.
RECURSIVE FallbackPartsDropFailed(_, _)
FallbackPartsDropFailed(ss, env) ==
    IF ss = <<>> THEN <<>>
    ELSE (IF env.lines[1].raises THEN <<>> ELSE <<env.lines[1].text>>)
         \o FallbackPartsDropFailed(Tail(ss), [env EXCEPT !.lines = Tail(@)])

\* The except block: each text translated alone, kept as it is when that raises.
FallbackParts(ss, env) ==
    [i \in 1..Len(ss) |->
        IF env.lines[i].raises THEN ss[i].text ELSE env.lines[i].text]

Min(a, b) == IF a <= b THEN a ELSE b

\* for s, t in zip(segments, parts): out.append({start, end, text: t})
ZipParts(ss, parts) ==
    [i \in 1..Min(Len(ss), Len(parts)) |->
        Segment(ss[i].start, ss[i].end, parts[i])]

\* The outcome of translate_segments(segments, target_lang): it raises, or
\* returns segs.
translate_segments(ss, target_lang, avail, env) ==
    IF target_lang = "en" THEN [raised |-> FALSE, segs |-> ss]
    ELSE IF ~avail THEN [raised |-> TRUE, segs |-> <<>>]
    ELSE [raised |-> FALSE,
          segs |-> ZipParts(ss, IF BatchFailed(ss, env)
                                THEN FallbackParts(ss, env)
                                ELSE BatchParts(env.batch.text))]

-----------------------------------------------------------------------------
(* transcribe_core                                                         *)

SUPPORTED_LANGS ==
    <<"en", "hi", "kn", "te", "ta", "ml", "mr", "gu", "bn", "pa", "or", "ur">>

Supported == Range(SUPPORTED_LANGS)

Ms(n) == n * TicksPerMs

\* The i-th segment of a chronological transcript, with text t.
SegAt(i, t) == Segment(Ms(1500 * (i - 1)), Ms(1500 * i), t)

\* The chronological transcripts of at most n segments with texts of T.
SegSeqs(T, n) ==
    {[i \in 1..Len(ts) |-> SegAt(i, ts[i])] : ts \in SeqsUpTo(T, n)}

AsrTexts == {<<SP, "a">>}

\* What model.transcribe may return: timed segments, or no segment and the
\* text of the whole file (possibly empty).
AsrResults ==
    {[segments |-> ss, text |-> <<>>] : ss \in SegSeqs(AsrTexts, MaxSegs)}
    \cup {[segments |-> <<>>, text |-> t] : t \in AsrTexts}

\* The segments transcribe_core returns for a result of the engine.
transcribe_core(result) ==
    IF result.segments = <<>> /\ result.text # <<>>
    THEN <<Segment(0, Ms(10), result.text)>>
    ELSE result.segments

-----------------------------------------------------------------------------
(* transcribe_to_vtt_many                                                  *)

Videos == {"v1", "v2"}
\* The codes a caller passes: the source language, a target, an unknown code.
Codes == {"en", "hi", "xx"}
LangLists == SeqsUpTo(Codes, MaxLangs)
\* The codes among them that need translation.
Targets == (Codes \cap Supported) \ {"en"}

\* out[code] = ...: a new key goes last, a known key keeps its place.
DictSet(keys, k) == IF k \in Range(keys) THEN keys ELSE Append(keys, k)

\* A bug the loop could have: a failed translation leaves the track empty.
LangSegsEmptyOnFailure(base, code, avail, env) ==
    LET r == translate_segments(base, code, avail, env)
    IN  IF code = "en" THEN base ELSE IF r.raised THEN <<>> ELSE r.segs

\* The try block of the loop: the segments of the track of code.
LangSegs(base, code, avail, env) ==
    LET r == translate_segments(base, code, avail, env)
    IN  IF code = "en" THEN base ELSE IF r.raised THEN base ELSE r.segs

\* The locals and the directory after write_vtt and out[code] = str(vtt_path).
WriteTrack(st, v, code, ss) ==
    [out     |-> DictSet(st.out, code),
     files   |-> [st.files EXCEPT ![<<v, code>>] = write_vtt(ss)],
     written |-> Append(st.written, code),
     segs    |-> ss,
     asr     |-> st.asr]

\* A bug the loop could have: the engine transcribes again for every language.
LoopBodyRetranscribing(st, v, base, code, avail, env) ==
    [WriteTrack(st, v, code, LangSegs(base, code, avail, env)) EXCEPT !.asr = @ + 1]

\* One iteration of "for code in langs" for a supported code.
LoopBody(st, v, base, code, avail, env) ==
    WriteTrack(st, v, code, LangSegs(base, code, avail, env))

\* A bug the manifest could have: it lists the requested codes.
ManifestLangsRequested(keys, ls) == ls

\* "langs": list(out.keys())
ManifestLangs(keys, ls) == keys

\* A bug a failed transcription could have: an empty manifest is left behind.
ManifestsOnAsrFailureEmptied(mans, v) ==
    [mans EXCEPT ![v] = [exists |-> TRUE, langs |-> <<>>]]

\* transcribe_core raising leaves line 152 before anything is written.
ManifestsOnAsrFailure(mans, v) == mans

\* A bug the manifest could have: it lists every supported language.
WriteManifestFileAllSupported(mans, v, keys, ls) ==
    [mans EXCEPT ![v] = [exists |-> TRUE, langs |-> SUPPORTED_LANGS]]

\* json.dump(manifest, f) at {video_id}.manifest.json
WriteManifestFile(mans, v, keys, ls) ==
    [mans EXCEPT ![v] = [exists |-> TRUE, langs |-> ManifestLangs(keys, ls)]]

Locals ==
    [out |-> out, files |-> files, written |-> written, segs |-> segs, asr |-> asrCalls]

\* The call: the arguments, and how the translation capability will answer.
Call(v, ls, fails) ==
    /\ pc = "idle"
    /\ runs < MaxRuns
    /\ runs' = runs + 1
    /\ pc' = "called"
    /\ video_id' = v
    /\ langs' = ls
    /\ mtFails' = fails
    /\ idx' = 1
    /\ out' = <<>>
    /\ written' = <<>>
    /\ segs' = <<>>
    /\ base_segments' = <<>>
    /\ asrCalls' = 0
    /\ UNCHANGED <<asrAvail, mtAvail, diskVars, upVars, trVars, vttVars, tsVars>>

\* base_segments = transcribe_core(media_path), the engine answering result.
TranscribeOk(result) ==
    /\ pc = "called"
    /\ asrAvail
    /\ asrCalls' = asrCalls + 1
    /\ base_segments' = transcribe_core(result)
    /\ pc' = "loop"
    /\ UNCHANGED <<video_id, langs, idx, segs, out, written, asrAvail, mtAvail, mtFails,
                   runs, diskVars, upVars, trVars, vttVars, tsVars>>

\* transcribe_core raises: whisper is None, or the engine raises.
TranscribeRaises ==
    /\ pc = "called"
    /\ asrCalls' = asrCalls + 1
    /\ pc' = "raised"
    /\ manifests' = ManifestsOnAsrFailure(manifests, video_id)
    /\ UNCHANGED <<video_id, langs, idx, base_segments, segs, out, written, asrAvail,
                   mtAvail, mtFails, runs, files, upVars, trVars, vttVars, tsVars>>

\* if code not in SUPPORTED_LANGS: continue
SkipUnsupported ==
    /\ pc = "loop"
    /\ idx <= Len(langs)
    /\ langs[idx] \notin Supported
    /\ idx' = idx + 1
    /\ UNCHANGED <<pc, video_id, langs, base_segments, segs, out, written, asrCalls,
                   asrAvail, mtAvail, mtFails, runs, diskVars, upVars, trVars,
                   vttVars, tsVars>>

\* One iteration for a supported code, the capability answering env: any
\* answer of TrEnvs, or (not any) only its errors and its faithful answer.
ProcessLang(any) ==
    /\ pc = "loop"
    /\ idx <= Len(langs)
    /\ langs[idx] \in Supported
    /\ \E env \in IF any THEN TrEnvs(base_segments, langs[idx], langs[idx] \in mtFails)
                  ELSE {IF langs[idx] \in mtFails THEN AllRaise(base_segments)
                        ELSE Faithful(base_segments, langs[idx])} :
         LET st == LoopBody(Locals, video_id, base_segments, langs[idx], mtAvail, env)
         IN  /\ out' = st.out
             /\ written' = st.written
             /\ files' = st.files
             /\ segs' = st.segs
             /\ asrCalls' = st.asr
    /\ idx' = idx + 1
    /\ UNCHANGED <<pc, video_id, langs, base_segments, asrAvail, mtAvail, mtFails,
                   runs, manifests, upVars, trVars, vttVars, tsVars>>

\* After the loop: the manifest is written and out returned.
WriteManifest ==
    /\ pc = "loop"
    /\ idx > Len(langs)
    /\ manifests' = WriteManifestFile(manifests, video_id, out, langs)
    /\ pc' = "done"
    /\ UNCHANGED <<video_id, langs, idx, base_segments, segs, out, written, asrCalls,
                   asrAvail, mtAvail, mtFails, runs, files, upVars, trVars, vttVars,
                   tsVars>>

\* The caller has the result (or the exception); the locals are gone.
Return ==
    /\ pc \in {"done", "raised"}
    /\ pc' = "idle"
    /\ video_id' = "v1"
    /\ langs' = <<>>
    /\ mtFails' = {}
    /\ idx' = 1
    /\ out' = <<>>
    /\ written' = <<>>
    /\ segs' = <<>>
    /\ base_segments' = <<>>
    /\ asrCalls' = 0
    /\ UNCHANGED <<asrAvail, mtAvail, runs, diskVars, upVars, trVars, vttVars, tsVars>>

-----------------------------------------------------------------------------
(* upload_video: the validation of the requested languages, the run, and   *)
(* the tracks of the response.                                             *)

\* SUPPORTED_LANGS of main.py: the codes in table order.
LANG_TABLE ==
    <<"en", "hi", "kn", "te", "ta", "ml", "mr", "gu", "bn", "pa", "or", "ur">>

\* The characters of each code of the table.
CodeChars ==
    [c \in Range(LANG_TABLE) |->
        CASE c = "en" -> <<"e", "n">> [] c = "hi" -> <<"h", "i">>
          [] c = "kn" -> <<"k", "n">> [] c = "te" -> <<"t", "e">>
          [] c = "ta" -> <<"t", "a">> [] c = "ml" -> <<"m", "l">>
          [] c = "mr" -> <<"m", "r">> [] c = "gu" -> <<"g", "u">>
          [] c = "bn" -> <<"b", "n">> [] c = "pa" -> <<"p", "a">>
          [] c = "or" -> <<"o", "r">> [] c = "ur" -> <<"u", "r">>]

\* code.strip() in SUPPORTED_LANGS
Recognized(t) == \E c \in Range(LANG_TABLE) : CodeChars[c] = Strip(t)
CodeOf(t) == CHOOSE c \in Range(LANG_TABLE) : CodeChars[c] = Strip(t)

RECURSIVE KeepRecognized(_)
\* [code.strip() for code in parts if code.strip() in SUPPORTED_LANGS]
KeepRecognized(parts) ==
    IF parts = <<>> THEN <<>>
    ELSE (IF Recognized(Head(parts)) THEN <<CodeOf(Head(parts))>> ELSE <<>>)
         \o KeepRecognized(Tail(parts))

\* A bug the validation could have: nothing recognized leaves nothing requested.
ParseLangsNoDefault(q) ==
    IF q.given /\ q.text # <<>> THEN KeepRecognized(Split(q.text, <<",">>))
    ELSE LANG_TABLE

\* The local requested, for the query parameter langs (absent: not given).
ParseLangs(q) ==
    IF q.given /\ q.text # <<>>
    THEN LET kept == KeepRecognized(Split(q.text, <<",">>))
         IN  IF kept = <<>> THEN LANG_TABLE ELSE kept
    ELSE LANG_TABLE

RECURSIVE RunLoop(_, _, _, _, _, _)
\* "for code in langs" to its end, the capability failing or faithful.
RunLoop(st, v, base, ls, avail, failing) ==
    IF ls = <<>> THEN st
    ELSE LET code == Head(ls)
             env == IF failing THEN AllRaise(base) ELSE Faithful(base, code)
             nxt == IF code \in Supported
                    THEN LoopBody(st, v, base, code, avail, env) ELSE st
         IN  RunLoop(nxt, v, base, Tail(ls), avail, failing)

RECURSIVE ExistingTracks(_, _, _)
\* for code in requested: if vtt_path.exists(): tracks.append({lang: code, ...})
ExistingTracks(req, v, fs) ==
    IF req = <<>> THEN <<>>
    ELSE (IF fs[<<v, Head(req)>>] # NoFile THEN <<Head(req)>> ELSE <<>>)
         \o ExistingTracks(Tail(req), v, fs)

\* The handler with transcribe_to_vtt_many returning: 200 and the tracks.
UploadOk(v, result, failing) ==
    /\ upc = "received"
    /\ asrAvail
    /\ \E req \in {ParseLangs(raw)}, base \in {transcribe_core(result)} :
         \E st \in {RunLoop([out |-> <<>>, files |-> files, written |-> <<>>, segs |-> <<>>, asr |-> 1],
                             v, base, req, mtAvail, failing)} :
           /\ requested' = req
           /\ video_id' = v
           /\ langs' = req
           /\ base_segments' = base
           /\ idx' = Len(req) + 1
           /\ segs' = st.segs
           /\ out' = st.out
           /\ written' = st.written
           /\ asrCalls' = st.asr
           /\ files' = st.files
           /\ manifests' = WriteManifestFile(manifests, v, st.out, req)
           /\ tracks' = ExistingTracks(req, v, st.files)
    /\ mtFails' = IF failing THEN Supported \ {"en"} ELSE {}
    /\ runs' = runs + 1
    /\ pc' = "done"
    /\ upc' = "responded"
    /\ UNCHANGED <<raw, asrAvail, mtAvail, trVars, vttVars, tsVars>>

\* The handler with transcribe_to_vtt_many raising: 500.
UploadFails(v) ==
    /\ upc = "received"
    /\ requested' = ParseLangs(raw)
    /\ video_id' = v
    /\ langs' = requested'
    /\ asrCalls' = 1
    /\ runs' = runs + 1
    /\ manifests' = ManifestsOnAsrFailure(manifests, v)
    /\ pc' = "raised"
    /\ upc' = "error"
    /\ UNCHANGED <<raw, tracks, idx, base_segments, segs, out, written, asrAvail, mtAvail,
                   mtFails, files, trVars, vttVars, tsVars>>

-----------------------------------------------------------------------------
(* The specifications.                                                     *)

NoReply == [batch |-> Raise, lines |-> <<>>]
NoResult == [done |-> FALSE, raised |-> FALSE, segs |-> <<>>]
NoQuery == [given |-> FALSE, text |-> <<>>]

PipeIdle ==
    /\ pc = "idle"
    /\ video_id = "v1"
    /\ langs = <<>>
    /\ idx = 1
    /\ base_segments = <<>>
    /\ segs = <<>>
    /\ out = <<>>
    /\ written = <<>>
    /\ asrCalls = 0
    /\ runs = 0
    /\ mtFails = {}

EmptyFiles == [k \in Videos \X Supported |-> NoFile]
EmptyManifests == [v \in Videos |-> NoManifest]

DiskEmpty == files = EmptyFiles /\ manifests = EmptyManifests

UploadIdle == raw = NoQuery /\ requested = <<>> /\ tracks = <<>> /\ upc = "idle"
TranslateIdle == tSegs = <<>> /\ tLang = "en" /\ tEnv = NoReply /\ tRes = NoResult
VttIdle == vttSegs = <<>> /\ vttFile = NoFile
TimeIdle == seconds = 0 /\ stamp = <<>>

\* The transcript of the spec's end-to-end scenarios.
ScenarioResult ==
    [segments |-> <<SegAt(1, <<SP, "a">>), SegAt(2, <<"b">>)>>, text |-> <<>>]

\* The directory an earlier run for v1 and <<"en", "hi">> has left.
EarlierRun ==
    RunLoop([out |-> <<>>, files |-> EmptyFiles, written |-> <<>>, segs |-> <<>>, asr |-> 1],
            "v1", transcribe_core(ScenarioResult), <<"en", "hi">>, TRUE, FALSE)

\* One run of transcribe_to_vtt_many, into an empty directory or into the one
\* an earlier run has left, the capabilities answering anything.
Init ==
    /\ PipeIdle /\ UploadIdle /\ TranslateIdle /\ VttIdle /\ TimeIdle
    /\ asrAvail \in BOOLEAN
    /\ mtAvail \in BOOLEAN
    /\ \/ DiskEmpty
       \/ /\ files = EarlierRun.files
          /\ manifests = WriteManifestFile(EmptyManifests, "v1", EarlierRun.out, <<"en", "hi">>)

Next ==
    \/ \E v \in Videos, ls \in LangLists, fails \in SUBSET Targets :
          Call(v, ls, fails)
    \/ \E result \in AsrResults : TranscribeOk(result)
    \/ TranscribeRaises
    \/ SkipUnsupported
    \/ ProcessLang(TRUE)
    \/ WriteManifest

Spec == Init /\ [][Next]_vars

\* Runs one after the other into one directory, the translation capability
\* available and faithful.
InitReruns ==
    /\ PipeIdle /\ DiskEmpty /\ UploadIdle /\ TranslateIdle /\ VttIdle /\ TimeIdle
    /\ asrAvail = TRUE
    /\ mtAvail = TRUE

NextReruns ==
    \/ \E v \in Videos, ls \in LangLists : Call(v, ls, {})
    \/ TranscribeOk(ScenarioResult)
    \/ TranscribeRaises
    \/ SkipUnsupported
    \/ ProcessLang(FALSE)
    \/ WriteManifest
    \/ Return

SpecReruns == InitReruns /\ [][NextReruns]_vars

\* One upload: the query parameter langs is absent or a string.
RawChars == {"e", "n", ",", SP}
RawInputs(n) ==
    {NoQuery} \cup {[given |-> TRUE, text |-> t] : t \in SeqsUpTo(RawChars, n)}

InitUpload ==
    /\ PipeIdle /\ DiskEmpty /\ TranslateIdle /\ VttIdle /\ TimeIdle
    /\ asrAvail = TRUE
    /\ mtAvail = TRUE
    /\ raw \in RawInputs(MaxRawLen)
    /\ requested = <<>>
    /\ tracks = <<>>
    /\ upc = "received"

NextUpload ==
    \/ \E failing \in BOOLEAN : UploadOk("v1", ScenarioResult, failing)
    \/ UploadFails("v1")

SpecUpload == InitUpload /\ [][NextUpload]_vars

\* One call of translate_segments.
TrTexts == {<<SP, "a">>, <<"b">>, <<"c">> \o Bars \o <<"d">>}

InitTranslate ==
    /\ PipeIdle /\ DiskEmpty /\ UploadIdle /\ VttIdle /\ TimeIdle
    /\ asrAvail = TRUE
    /\ mtAvail \in BOOLEAN
    /\ tSegs \in SegSeqs(TrTexts, MaxSegs)
    /\ tLang \in {"en", "hi"}
    /\ tEnv \in TrEnvs(tSegs, tLang, FALSE)
    /\ tRes = NoResult

Translate ==
    /\ ~tRes.done
    /\ \E r \in {translate_segments(tSegs, tLang, mtAvail, tEnv)} :
         tRes' = [done |-> TRUE, raised |-> r.raised, segs |-> r.segs]
    /\ UNCHANGED <<tSegs, tLang, tEnv, pipeVars, diskVars, upVars, vttVars, tsVars>>

SpecTranslate == InitTranslate /\ [][Translate]_vars

\* One call of write_vtt.
TextChars == {"a", NL, "-", ">"}
\* 0 s, the last tick before 1 s, and 1.5 s
VttTimes == {0, Ms(1000) - 1, Ms(1500)}

RECURSIVE VttSeqs(_, _, _)
\* The transcripts of n segments in time order from time from on, their texts
\* of at most budget characters in all.
VttSeqs(n, budget, from) ==
    IF n = 0 THEN {<<>>}
    ELSE UNION {UNION {UNION {
            {<<Segment(s, e, t)>> \o rest : rest \in VttSeqs(n - 1, budget - Len(t), e)} :
                t \in SeqsUpTo(TextChars, budget)} :
                e \in {x \in VttTimes : x >= s}} :
                s \in {x \in VttTimes : x >= from}}

VttInputs(most) == UNION {VttSeqs(n, MaxTextLen, 0) : n \in 0..most}

InitVtt ==
    /\ PipeIdle /\ DiskEmpty /\ UploadIdle /\ TranslateIdle /\ TimeIdle
    /\ asrAvail = TRUE
    /\ mtAvail = TRUE
    /\ vttSegs \in VttInputs(MaxVttSegs)
    /\ vttFile = NoFile

WriteVtt ==
    /\ vttFile = NoFile
    /\ vttFile' = write_vtt(vttSegs)
    /\ UNCHANGED <<vttSegs, pipeVars, diskVars, upVars, trVars, tsVars>>

SpecVtt == InitVtt /\ [][WriteVtt]_vars

\* One call of format_timestamp, for 0 <= seconds < 100 hours.
WholeSeconds == {0, 1, 59, 60, 3599, 3600, 86399, 359999}
TimeInputs(W) == {w * TicksPerSec + f : w \in W, f \in 0..(TicksPerSec - 1)}

InitTime ==
    /\ PipeIdle /\ DiskEmpty /\ UploadIdle /\ TranslateIdle /\ VttIdle
    /\ asrAvail = TRUE
    /\ mtAvail = TRUE
    /\ seconds \in TimeInputs(WholeSeconds)
    /\ stamp = <<>>

FormatTimestamp ==
    /\ stamp = <<>>
    /\ stamp' = format_timestamp(seconds)
    /\ UNCHANGED <<seconds, pipeVars, diskVars, upVars, trVars, vttVars>>

SpecTime == InitTime /\ [][FormatTimestamp]_vars

-----------------------------------------------------------------------------
(* The claims.                                                             *)

NoDup(s) == \A i, j \in 1..Len(s) : i # j => s[i] # s[j]

RECURSIVE FirstOccurrences(_)
\* s without the later occurrences of what it repeats.
FirstOccurrences(s) ==
    IF s = <<>> THEN <<>>
    ELSE LET init == FirstOccurrences(SubSeq(s, 1, Len(s) - 1))
         IN  IF s[Len(s)] \in Range(init) THEN init ELSE Append(init, s[Len(s)])

RECURSIVE SupportedOf(_)
\* The supported codes of a list, in its order.
SupportedOf(ls) ==
    IF ls = <<>> THEN <<>>
    ELSE (IF Head(ls) \in Supported THEN <<Head(ls)>> ELSE <<>>) \o SupportedOf(Tail(ls))

\* C1: in one run of transcribe_to_vtt_many, transcribe_core is invoked exactly
\* once, whatever the language list and whatever the translation calls do: no
\* call before the run reaches line 152, one call from then on, to the end of
\* the run (returning or raising).
C1_AsrInvokedOnce ==
    /\ pc \in {"idle", "called"} => asrCalls = 0
    /\ pc \in {"loop", "done", "raised"} => asrCalls = 1

\* A run that has written two languages' tracks and is done.
C1_Witness == pc = "done" /\ Len(out) >= 2 /\ "xx" \notin Range(langs)

\* C2: if ASR succeeds and the translation capability is unavailable, or raises
\* on every call for a requested language L that is not the source language,
\* the run does not raise (only a failed transcription, before the loop, does);
\* the segments of L's track are the ASR segments; the track {video_id}.L.vtt
\* holds what write_vtt writes for them; and L is in the manifest's langs and in
\* the returned mapping.
C2_FallbackTrack ==
    /\ pc = "raised" => idx = 1 /\ written = <<>>
    /\ (/\ pc \in {"loop", "done"}
        /\ idx > 1
        /\ langs[idx - 1] \in Supported \ {"en"}
        /\ (~mtAvail \/ langs[idx - 1] \in mtFails))
       => /\ segs = base_segments
          /\ files[<<video_id, langs[idx - 1]>>] = write_vtt(base_segments)
    /\ \A L \in Supported \ {"en"} :
         (pc = "done" /\ L \in Range(langs) /\ (~mtAvail \/ L \in mtFails))
         => /\ files[<<video_id, L>>] = write_vtt(base_segments)
            /\ L \in Range(manifests[video_id].langs)
            /\ L \in Range(out)

\* A finished run whose translation calls for "hi" all raised, on a transcript
\* of two segments or more.
C2_Witness ==
    /\ pc = "done"
    /\ mtAvail
    /\ "hi" \in mtFails
    /\ "hi" \in Range(langs)
    /\ Len(base_segments) >= 2
    /\ files[<<video_id, "hi">>] = write_vtt(base_segments)

\* C3: for every segment sequence and every target language that is not the
\* source language, with the capability available, translate_segments does not
\* raise whatever the translation calls answer; it returns as many segments as
\* it was given, with the same start and end at every position; and when the
\* batch call raises or the batch answer does not split into as many parts as
\* there are segments, the text at position i is the translation of segment i
\* alone, or segment i's own text if that call raised.
C3_TranslateSameLength ==
    (tRes.done /\ mtAvail /\ tLang # "en")
    => /\ ~tRes.raised
       /\ Len(tRes.segs) = Len(tSegs)
       /\ \A i \in 1..Len(tSegs) :
            /\ tRes.segs[i].start = tSegs[i].start
            /\ tRes.segs[i].end = tSegs[i].end
       /\ (tEnv.batch.raises \/ Len(Split(tEnv.batch.text, Bars)) # Len(tSegs))
          => \A i \in 1..Len(tSegs) :
               tRes.segs[i].text = IF tEnv.lines[i].raises THEN tSegs[i].text
                                   ELSE tEnv.lines[i].text

\* A call whose batch answer had the wrong part count, one line translation
\* raising and another succeeding.
C3_Witness ==
    /\ tRes.done /\ mtAvail /\ tLang # "en"
    /\ ~tEnv.batch.raises
    /\ Len(Split(tEnv.batch.text, Bars)) # Len(tSegs)
    /\ \E i, j \in 1..Len(tSegs) : tEnv.lines[i].raises /\ ~tEnv.lines[j].raises

\* Whether the query parameter is a string with no recognized code in it.
OnlyUnrecognized(q) ==
    /\ q.given /\ q.text # <<>>
    /\ \A i \in 1..Len(Split(q.text, <<",">>)) : ~Recognized(Split(q.text, <<",">>)[i])

\* C4: in upload_video, a langs string with only unrecognized codes gives the
\* list an empty or absent string gives, the twelve languages of the table in
\* table order; and in every case only codes of the table are passed to
\* transcribe_to_vtt_many, each recognized code of the string among them.
C4_UnknownOnlyMeansAll ==
    upc # "received"
    => /\ Len(LANG_TABLE) = 12
       /\ (~raw.given \/ raw.text = <<>> \/ OnlyUnrecognized(raw)) => requested = LANG_TABLE
       /\ langs = requested
       /\ Range(requested) \subseteq Range(LANG_TABLE)
       /\ (raw.given /\ ~OnlyUnrecognized(raw))
          => \A i \in 1..Len(Split(raw.text, <<",">>)) :
               Recognized(Split(raw.text, <<",">>)[i])
               => CodeOf(Split(raw.text, <<",">>)[i]) \in Range(requested)

\* An upload answered for a string of unrecognized codes only: twelve tracks.
C4_Witness ==
    /\ upc = "responded"
    /\ OnlyUnrecognized(raw)
    /\ Len(Split(raw.text, <<",">>)) >= 2
    /\ Len(tracks) = 12

\* C5: when a run completes, its manifest lists exactly the languages whose
\* track this run wrote (translated or fallback), in the order they were first
\* processed; they are the keys of the returned mapping; every supported code
\* requested had its track written and no unsupported code is listed.
C5_ManifestListsWritten ==
    pc = "done"
    => /\ manifests[video_id].exists
       /\ manifests[video_id].langs = out
       /\ out = FirstOccurrences(written)
       /\ written = SupportedOf(langs)
       /\ Range(out) \subseteq Supported
       /\ \A l \in Range(out) : files[<<video_id, l>>] # NoFile

\* A finished run that was asked for an unsupported code and for a target
\* whose translation calls all raised.
C5_Witness ==
    /\ pc = "done"
    /\ "xx" \in Range(langs)
    /\ "hi" \in mtFails
    /\ manifests[video_id].langs = <<"hi">>

\* C6: if transcribe_core raises, the run raises at once, by the step that
\* follows the call, and neither the call nor that step changes a track file
\* or a manifest file: the output directory is as it was.
C6_AsrFailureWritesNothing ==
    [][/\ pc' = "raised" => (pc = "called" /\ files' = files /\ manifests' = manifests)
       /\ pc' = "called" => (pc = "idle" /\ files' = files /\ manifests' = manifests)]_vars

\* A run that raised in a directory that holds an earlier run's files.
C6_Witness ==
    /\ pc = "raised"
    /\ asrCalls = 1
    /\ manifests["v1"].exists
    /\ files[<<"v1", "hi">>] # NoFile

\* C7: for 0 <= seconds < 100 hours, format_timestamp returns HH:MM:SS.mmm, two
\* digits of hours, minutes and seconds in 00-59, three digits of milliseconds,
\* stating the input to the nearest millisecond.
C7_TimestampShape ==
    stamp # <<>>
    => /\ IsTimestamp(stamp)
       /\ AccurateToMs(TimestampMs(stamp), seconds)

\* C8: write_vtt, then re-reading the file, recovers as many entries as there
\* were segments, in their order, with start and end to the nearest
\* millisecond, for every text.
C8_RoundTrip ==
    vttFile # NoFile
    => LET entries == ParseVtt(vttFile)
       IN  /\ Len(entries) = Len(vttSegs)
           /\ \A i \in 1..Len(vttSegs) :
                /\ AccurateToMs(entries[i].start, vttSegs[i].start)
                /\ AccurateToMs(entries[i].end, vttSegs[i].end)

\* C9: the list upload_video passes to transcribe_to_vtt_many repeats no
\* language, and the tracks of the response hold one entry per language at
\* most, as many as the manifest's langs.
C9_ValidatedSet ==
    /\ upc # "received" => NoDup(requested)
    /\ upc = "responded"
       => /\ NoDup(tracks)
          /\ Len(tracks) = Len(manifests[video_id].langs)

\* C10: after completed runs, one after the other, the manifest of each video
\* lists exactly the languages whose track file is in the directory.
C10_ManifestMatchesDisk ==
    pc \in {"idle", "done"}
    => \A v \in Videos :
         manifests[v].exists
         => Range(manifests[v].langs) = {l \in Supported : files[<<v, l>>] # NoFile}

\* C10, amended: the manifest of each video lists only languages whose track
\* file is in the directory, and when a run completes the manifest of its video
\* lists exactly the languages whose track that run wrote; a track an earlier
\* run left for the same video may be there unlisted.
C10_ManifestListsLastRun ==
    /\ \A v \in Videos : \A i \in 1..Len(manifests[v].langs) :
         /\ manifests[v].langs[i] \in Supported
         /\ files[<<v, manifests[v].langs[i]>>] # NoFile
    /\ \A v \in Videos :
         (\E l \in Supported : files[<<v, l>>] # NoFile) /\ pc \in {"idle", "done"}
         => manifests[v].exists
    /\ pc = "done"
       => /\ manifests[video_id].exists
          /\ manifests[video_id].langs = out
          /\ Range(out) = Range(written)

\* A second run for a video has completed, and a track of the first is in the
\* directory unlisted.
C10_Witness ==
    /\ pc = "done"
    /\ runs = 2
    /\ \E l \in Supported :
         files[<<video_id, l>>] # NoFile /\ l \notin Range(manifests[video_id].langs)

=============================================================================
